---- MODULE Spec2Model ----
(***************************************************************************)
(* Model of src/cdp-tool.js: the CDPClient class (connect, send, on,       *)
(* close and the message / close handlers it installs on the WebSocket)    *)
(* and withClient, the session wrapper around it, and pickTarget.          *)
(*                                                                         *)
(* The WebSocket is the `ws` package's EventEmitter API, the only one the  *)
(* code of connect() (ws.on(...)) and send() (ws.send(data, cb)) works     *)
(* with.  readyState: 0 CONNECTING, 1 OPEN, 2 CLOSING, 3 CLOSED.           *)
(*                                                                         *)
(* Specifications (the same client, driven by different callers):          *)
(*   Spec         any interleaving of send(), close() and channel events   *)
(*                on a client that is connected at most once               *)
(*   LifeSpec     connect() may be invoked again on the same instance      *)
(*   SessionSpec  withClient drives the client                             *)
(*   EventSpec    subscriptions and event frames, with handlers that call  *)
(*                on() while they run                                      *)
(*   WaitSpec     calls, subscriptions and every kind of inbound frame     *)
(*   LateSpec     calls on a closing or closed socket, with the fairness   *)
(*                of the tick queue                                        *)
(*   PickSpec     pickTarget applied to every target list and flags        *)
(***************************************************************************)
EXTENDS Integers, Sequences, FiniteSets, TLC

\* ---------------------------------------------------------------- bounds
MaxCalls == 3        \* send() invocations in Spec
MaxChannels == 2     \* connect() invocations in LifeSpec
MaxLifeCalls == 1    \* send() invocations in LifeSpec
MaxBodyCalls == 1    \* send() invocations of the body in SessionSpec
MaxHandlers == 3     \* entries of the handler lists in EventSpec
MaxTargets == 2      \* length of the target list in PickSpec
MaxWaitCalls == 2    \* send() invocations in WaitSpec
MaxLateCalls == 2    \* send() invocations in LateSpec

\* ------------------------------------------------------- value universes
\* the subscriptions of cmdLogs, in its order: method and handler
LogSubscriptions ==
  << [method |-> "Runtime.consoleAPICalled", handler |-> "logConsole"],
     [method |-> "Runtime.exceptionThrown", handler |-> "logException"] >>
Methods == {LogSubscriptions[i].method : i \in 1..Len(LogSubscriptions)}

\* the setup calls with the first two exchanged
SetupCallsExchanged == <<"Runtime.enable", "Page.enable", "Log.enable">>

\* the three setup calls of withClient
SetupCalls == <<"Page.enable", "Runtime.enable", "Log.enable">>

\* ids a frame can carry: the ids send() can allocate and one more, StrayId,
\* that no call ever has
SessionCalls == Len(SetupCalls) + MaxBodyCalls
StrayId == (IF MaxCalls > SessionCalls THEN MaxCalls ELSE SessionCalls) + 1
FrameIds == 1..StrayId

NoError == [present |-> FALSE, message |-> ""]
ErrorFields ==
  { NoError,
    [present |-> TRUE, message |-> "boom"],
    [present |-> TRUE, message |-> ""] }

\* an inbound frame after JSON.parse ("absent": the field is missing; id 0: no id)
ResponseFrames ==
  [ id : FrameIds, error : ErrorFields, result : {"absent", "r1"},
    method : {"absent"}, params : {"absent"} ]
EventFrames ==
  [ id : {0}, error : {NoError}, result : {"absent"},
    method : {"absent"} \cup Methods, params : {"absent", "p1"} ]
\* a frame with an id and a method at once
MixedFrames ==
  [ id : {StrayId}, error : {NoError}, result : {"r1"},
    method : {"Runtime.consoleAPICalled"}, params : {"p1"} ]
Frames == ResponseFrames \cup EventFrames \cup MixedFrames

\* the frames of a session: a successful response always has a result
SessionFrames == {f \in Frames : f.id = 0 \/ f.error.present \/ f.result = "r1"}

NoFrame == [id |-> 0, error |-> NoError, result |-> "absent",
            method |-> "absent", params |-> "absent"]

VARIABLES
  ws,             \* this.ws: 0 is null, else the index of the channel
  nchan,          \* number of WebSocket objects constructed so far
  rs,             \* rs[ch]: readyState of channel ch
  conn,           \* conn[ch]: state of the promise connect() awaits for ch
  closeReq,       \* closeReq[ch]: number of ws.close() requests on ch
  id,             \* this.id
  pending,        \* this.pending: id -> index of the call in calls
  calls,          \* one record per send() invocation: its promise
  writes,         \* calls whose write callback is scheduled with an error
  eventHandlers,  \* this.eventHandlers: method -> sequence of handlers
  invoked,        \* handler invocations made for the last inbound frame
  dropped,        \* calls of the body unsettled when a frame was dropped
  pc,             \* position of withClient ("api": no session)
  awaited,        \* the call withClient is awaiting (0: none)
  err,            \* error thrown inside withClient ("none": none)
  closeInvoked,   \* withClient's finally invoked client.close()
  targets,        \* pickTarget: its first argument
  flags,          \* pickTarget: its second argument
  picked          \* pickTarget: what the call did (not called, returned, threw)

clientVars == <<ws, nchan, rs, conn, closeReq, id, pending, calls, writes,
                eventHandlers>>
sessionVars == <<pc, awaited, err, closeInvoked>>
vars == <<ws, nchan, rs, conn, closeReq, id, pending, calls, writes,
          eventHandlers, invoked, dropped, pc, awaited, err, closeInvoked,
          targets, flags, picked>>

\* ------------------------------------------------------------- Map, Promise
Has(m, k) == k \in DOMAIN m
Get(m, k) == IF k \in DOMAIN m THEN m[k] ELSE 0
Set(m, k, v) == [x \in DOMAIN m \cup {k} |-> IF x = k THEN v ELSE m[x]]
Delete(m, k) == [x \in DOMAIN m \ {k} |-> m[x]]
EmptyMap == [x \in {} |-> 0]

\* resolve / reject of a promise: only the first call has an effect
Settle(cs, p, st, val, cause, f) ==
  IF cs[p].state = "pending"
  THEN [cs EXCEPT ![p] = [@ EXCEPT !.state = st, !.value = val,
                                   !.cause = cause, !.frame = f]]
  ELSE cs

RECURSIVE SettleAll(_, _, _, _, _)
SettleAll(cs, ps, st, val, cause) ==
  IF ps = {} THEN cs
  ELSE LET p == CHOOSE x \in ps : TRUE
       IN SettleAll(Settle(cs, p, st, val, cause, NoFrame), ps \ {p}, st, val, cause)

Unsettled == {p \in 1..Len(calls) : calls[p].state = "pending"}

\* --------------------------------------------------------------- pickTarget
\* A string is the tuple of its characters; Undefined is the value of a missing
\* property (its one element is no character).
Undefined == << "undefined" >>

\* the truthiness of a string or undefined: if (flags.target), t.url || ''
TruthyString(v) == v # Undefined /\ v # << >>

\* v || ''
OrEmpty(v) == IF TruthyString(v) THEN v ELSE << >>

\* s.includes(part)
Includes(s, part) ==
  \E i \in 0..(Len(s) - Len(part)) : SubSeq(s, i + 1, i + Len(part)) = part

\* targets.filter((t) => (t[field] || '').includes(part))
RECURSIVE Filter(_, _, _)
Filter(ts, field, part) ==
  IF ts = << >> THEN << >>
  ELSE IF Includes(OrEmpty(Head(ts)[field]), part)
       THEN << Head(ts) >> \o Filter(Tail(ts), field, part)
       ELSE Filter(Tail(ts), field, part)

\* let filtered = targets; if (flags.urlContains) ...; if (flags.titleContains) ...
ApplyFilters(ts, fl) ==
  LET byUrl == IF TruthyString(fl.urlContains)
               THEN Filter(ts, "url", fl.urlContains) ELSE ts
  IN IF TruthyString(fl.titleContains)
     THEN Filter(byUrl, "title", fl.titleContains) ELSE byUrl

\* the exact id looked for among the targets that passed the filters
ExactSearchFiltered(ts, fl) == ApplyFilters(ts, fl)

\* the array targets.find(...) runs over: all the targets
ExactSearchList(ts, fl) == ts

\* list.find((t) => t.id === wanted): the index of the first such element
\* (0: find returned undefined)
Find(list, wanted) ==
  IF \E i \in 1..Len(list) : list[i].id = wanted
  THEN CHOOSE i \in 1..Len(list) :
         list[i].id = wanted /\ \A j \in 1..(i - 1) : list[j].id # wanted
  ELSE 0

\* the emptiness test made only when no exact id is given
NoTargetsUnlessExact(ts, fl) == Len(ts) = 0 /\ ~TruthyString(fl.target)

\* targets.length === 0
NoTargets(ts, fl) == Len(ts) = 0

\* the last of the filtered targets
LastOf(list) == list[Len(list)]

\* filtered[0]
FirstOf(list) == list[1]

NoTarget == [id |-> Undefined, url |-> Undefined, title |-> Undefined]
NotCalled == [kind |-> "none", target |-> NoTarget, error |-> ""]
Returned(t) == [kind |-> "return", target |-> t, error |-> ""]
Thrown(msg) == [kind |-> "throw", target |-> NoTarget, error |-> msg]

\* pickTarget(targets, flags)
PickTarget(ts, fl) ==
  IF NoTargets(ts, fl) THEN Thrown("No page targets found")
  ELSE IF TruthyString(fl.target)
  THEN LET list == ExactSearchList(ts, fl)
           exact == Find(list, fl.target)
       IN IF exact = 0 THEN Thrown("Target id not found") ELSE Returned(list[exact])
  ELSE LET filtered == ApplyFilters(ts, fl)
       IN IF Len(filtered) = 0
          THEN Thrown("No targets matched the provided filters")
          ELSE Returned(FirstOf(filtered))

\* pickTarget has not been called
NoSelection ==
  /\ targets = << >>
  /\ flags = [target |-> Undefined, urlContains |-> Undefined,
              titleContains |-> Undefined]
  /\ picked = NotCalled

\* ------------------------------------------------------------- constructor
InitClient ==
  /\ ws = 0
  /\ nchan = 0
  /\ rs = <<>>
  /\ conn = <<>>
  /\ closeReq = <<>>
  /\ id = 0
  /\ pending = EmptyMap
  /\ calls = <<>>
  /\ writes = {}
  /\ eventHandlers = EmptyMap
  /\ invoked = <<>>
  /\ dropped = {}

Init ==
  /\ InitClient
  /\ pc = "api"
  /\ awaited = 0
  /\ err = "none"
  /\ closeInvoked = FALSE
  /\ NoSelection

\* ------------------------------------------------------------------ connect
\* new WebSocketCtor(this.wsUrl); this.ws = ws; the four handlers attached
Connect ==
  /\ nchan' = nchan + 1
  /\ ws' = nchan + 1
  /\ rs' = Append(rs, 0)
  /\ conn' = Append(conn, "pending")
  /\ closeReq' = Append(closeReq, 0)
  /\ UNCHANGED <<id, pending, calls, writes, eventHandlers, invoked>>

\* ws.on('open', resolve)
OnOpen(ch) ==
  /\ ch \in 1..nchan
  /\ rs[ch] = 0
  /\ rs' = [rs EXCEPT ![ch] = 1]
  /\ conn' = [conn EXCEPT ![ch] = IF @ = "pending" THEN "resolved" ELSE @]
  /\ UNCHANGED <<ws, nchan, closeReq, id, pending, calls, writes, eventHandlers,
                 invoked>>

\* an error handler that does not reject: connect() awaits on
OnErrorIgnored(ch) ==
  /\ ch \in 1..nchan
  /\ rs[ch] \in {0, 1}
  /\ rs' = [rs EXCEPT ![ch] = 2]
  /\ UNCHANGED <<ws, nchan, conn, closeReq, id, pending, calls, writes,
                 eventHandlers, invoked>>

\* ws.on('error', reject): the channel reports an error and starts closing
OnError(ch) ==
  /\ ch \in 1..nchan
  /\ rs[ch] \in {0, 1}
  /\ rs' = [rs EXCEPT ![ch] = 2]
  /\ conn' = [conn EXCEPT ![ch] = IF @ = "pending" THEN "rejected" ELSE @]
  /\ UNCHANGED <<ws, nchan, closeReq, id, pending, calls, writes, eventHandlers,
                 invoked>>

\* ------------------------------------------------------------ message handler
\* if (msg.id)
Truthy(n) == n # 0

\* correlation by position: the oldest entry, whatever id the frame carries
LookupOldest(pend, msgId) ==
  IF DOMAIN pend = {} THEN 0
  ELSE pend[CHOOSE k \in DOMAIN pend : \A j \in DOMAIN pend : k <= j]

\* this.pending.get(msg.id): the entry of that id (0: undefined)
Lookup(pend, msgId) == Get(pend, msgId)

\* msg.error.message || JSON.stringify(msg.error)
ErrorText(e) == IF e.message # "" THEN e.message ELSE "json"

\* msg.result || {}
ResultValue(r) == IF r # "absent" THEN r ELSE "{}"

\* the result field taking precedence over the error field
DeliverResultFirst(cs, p, f) ==
  IF f.result # "absent" \/ ~f.error.present
  THEN Settle(cs, p, "resolved", ResultValue(f.result), "frame", f)
  ELSE Settle(cs, p, "rejected", ErrorText(f.error), "frame", f)

\* if (msg.error) cb.reject(new Error(...)); else cb.resolve(msg.result || {})
Deliver(cs, p, f) ==
  IF f.error.present
  THEN Settle(cs, p, "rejected", ErrorText(f.error), "frame", f)
  ELSE Settle(cs, p, "resolved", ResultValue(f.result), "frame", f)

\* this.eventHandlers.get(method) || []
ListOf(eh, method) == IF Has(eh, method) THEN eh[method] ELSE <<>>

\* list.push(handler); this.eventHandlers.set(method, list)
Register(eh, method, handler) == Set(eh, method, Append(ListOf(eh, method), handler))

\* the method a handler named "cross" subscribes to: one that is not m
OtherMethod(m) == CHOOSE x \in Methods : x # m

\* what a handler does with the client when it is invoked for a frame of
\* method m: the on() calls it makes before it returns
\*   "adder"   client.on(m, late)
\*   "looper"  client.on(m, looper): it registers itself again
\*   "cross"   client.on(another method, late)
\*   any other handler (those of cmdLogs among them) makes none
HandlerCalls(h, m) ==
  CASE h = "adder" -> << [method |-> m, handler |-> "late"] >>
    [] h = "looper" -> << [method |-> m, handler |-> "looper"] >>
    [] h = "cross" -> << [method |-> OtherMethod(m), handler |-> "late"] >>
    [] OTHER -> << >>

\* an iteration in the reverse of the registration order
PickHandlerReversed(list, i) == list[Len(list) + 1 - i]

\* the element the iterator of for...of yields at its i-th step
PickHandler(list, i) == list[i]

\* an iteration over the handlers the array held when the loop began
IterationEndAtStart(atStart, now) == Len(atStart)

\* the index at which the iterator of for...of is done: it tests the length
\* the array has now, elements pushed during the loop included
IterationEnd(atStart, now) == Len(now)

\* the invocations of one dispatch the model follows
MaxSteps == MaxHandlers + 1

\* for (const h of handlers) h(arg), from the i-th step on.  done is FALSE when
\* the loop is still running after MaxSteps invocations.
RECURSIVE ForOf(_, _, _, _, _, _)
ForOf(eh, m, atStart, i, log, arg) ==
  IF i > IterationEnd(atStart, eh[m])
  THEN [handlers |-> eh, log |-> log, done |-> TRUE]
  ELSE IF Len(log) = MaxSteps
  THEN [handlers |-> eh, log |-> log, done |-> FALSE]
  ELSE LET h == PickHandler(eh[m], i)
           c == HandlerCalls(h, m)
           eh1 == IF c = <<>> THEN eh ELSE Register(eh, c[1].method, c[1].handler)
       IN ForOf(eh1, m, atStart, i + 1, Append(log, [h |-> h, params |-> arg]), arg)

\* const handlers = this.eventHandlers.get(msg.method);
\* if (handlers) for (const h of handlers) h(msg.params || {})
Dispatch(f) ==
  IF Has(eventHandlers, f.method)
  THEN ForOf(eventHandlers, f.method, eventHandlers[f.method], 1, <<>>,
             IF f.params # "absent" THEN f.params ELSE "{}")
  ELSE [handlers |-> eventHandlers, log |-> <<>>, done |-> TRUE]

\* ws.on('message', (raw) => { ... })
OnMessage(ch, f) ==
  /\ ch \in 1..nchan
  /\ rs[ch] \in {1, 2}
  /\ LET cb == Lookup(pending, f.id)
     IN IF Truthy(f.id)
        THEN IF cb = 0
             THEN /\ invoked' = <<>>
                  /\ UNCHANGED <<pending, calls, eventHandlers>>
             ELSE /\ pending' = Delete(pending, f.id)
                  /\ calls' = Deliver(calls, cb, f)
                  /\ invoked' = <<>>
                  /\ UNCHANGED eventHandlers
        ELSE IF f.method # "absent"
             THEN /\ invoked' = Dispatch(f).log
                  /\ eventHandlers' = Dispatch(f).handlers
                  /\ UNCHANGED <<pending, calls>>
             ELSE /\ invoked' = <<>>
                  /\ UNCHANGED <<pending, calls, eventHandlers>>
  /\ UNCHANGED <<ws, nchan, rs, conn, closeReq, id, writes>>

\* ------------------------------------------------------------- close handler
\* for (const [, cb] of this.pending) cb.reject(new Error('WebSocket closed'))
RejectPending(cs, pend) ==
  SettleAll(cs, {pend[k] : k \in DOMAIN pend}, "rejected", "WebSocket closed", "close")

\* the close handler rejecting without clearing
KeepPending(pend) == pend

\* this.pending.clear()
ClearPending(pend) == EmptyMap

\* ws.on('close', () => { ... })
OnClose(ch) ==
  /\ ch \in 1..nchan
  /\ rs[ch] \in {1, 2}
  /\ rs' = [rs EXCEPT ![ch] = 3]
  /\ calls' = RejectPending(calls, pending)
  /\ pending' = ClearPending(pending)
  /\ UNCHANGED <<ws, nchan, conn, closeReq, id, writes, eventHandlers, invoked>>

\* ---------------------------------------------------------------------- send
\* a counter that starts over after two ids
NextIdWrapping(n) == (n % 2) + 1

\* const id = ++this.id
NextId(n) == n + 1

NewCall(i, method) ==
  [id |-> i, method |-> method, state |-> "pending", value |-> "",
   cause |-> "none", frame |-> NoFrame]

\* a callback that rejects and leaves the entry in the pending set
WriteCallbackKeepsEntry(pend, cs, p, failed) ==
  IF ~failed THEN <<pend, cs>>
  ELSE <<pend, Settle(cs, p, "rejected", "write error", "write", NoFrame)>>

\* (err) => { if (!err) return; this.pending.delete(id); reject(err); }
WriteCallback(pend, cs, p, failed) ==
  IF ~failed THEN <<pend, cs>>
  ELSE <<Delete(pend, cs[p].id),
         Settle(cs, p, "rejected", "write error", "write", NoFrame)>>

\* what this.ws.send(data, cb) does, by the state of the channel:
\*   "throw"  this.ws is null (TypeError) or the socket is CONNECTING (ws throws)
\*   "write"  OPEN: the frame is written, cb is invoked later
\*   "cbsync" CLOSING/CLOSED: cb is invoked with an error before send returns
\*   "cblate" CLOSING/CLOSED: cb is invoked with an error on a later tick
SendOutcomes ==
  IF ws = 0 THEN {"throw"}
  ELSE IF rs[ws] = 0 THEN {"throw"}
  ELSE IF rs[ws] = 1 THEN {"write"}
  ELSE {"cbsync", "cblate"}

\* the executor of send()'s promise: this.pending.set(id, ...), this.ws.send(...);
\* an exception of the executor rejects the promise and ends the executor
Executor(pend, cs, i, p, how) ==
  LET pend1 == Set(pend, i, p)
  IN CASE how = "throw" ->
            <<pend1, Settle(cs, p, "rejected", "send threw", "throw", NoFrame)>>
       [] how = "cbsync" -> WriteCallback(pend1, cs, p, TRUE)
       [] OTHER -> <<pend1, cs>>

\* send(method, params = {})
Send(method, how) ==
  /\ how \in SendOutcomes
  /\ LET i == NextId(id)
         p == Len(calls) + 1
         r == Executor(pending, Append(calls, NewCall(i, method)), i, p, how)
     IN /\ id' = i
        /\ pending' = r[1]
        /\ calls' = r[2]
        /\ writes' = IF how = "cblate" THEN writes \cup {p} ELSE writes
  /\ UNCHANGED <<ws, nchan, rs, conn, closeReq, eventHandlers, invoked>>

\* the channel invokes the callback of an earlier ws.send with an error: one
\* scheduled by a send on a closing or closed socket, or the failed write of a
\* call that is still unsettled (once the call is settled by a frame or by the
\* close handler the callback deletes an absent id and rejects a settled
\* promise: no change).  A callback without an error returns at once.
OnWriteError(p) ==
  /\ p \in writes \/ (p \in Unsettled /\ Has(pending, calls[p].id))
  /\ LET r == WriteCallback(pending, calls, p, TRUE)
     IN /\ pending' = r[1]
        /\ calls' = r[2]
  /\ writes' = writes \ {p}
  /\ UNCHANGED <<ws, nchan, rs, conn, closeReq, id, eventHandlers, invoked>>

\* ------------------------------------------------------------------------ on
RECURSIVE SumLen(_, _)
SumLen(m, S) ==
  IF S = {} THEN 0
  ELSE LET k == CHOOSE x \in S : TRUE IN Len(m[k]) + SumLen(m, S \ {k})

NumHandlers == SumLen(eventHandlers, DOMAIN eventHandlers)

\* on(method, handler)
On(method, handler) ==
  /\ eventHandlers' = Register(eventHandlers, method, handler)
  /\ UNCHANGED <<ws, nchan, rs, conn, closeReq, id, pending, calls, writes, invoked>>

\* --------------------------------------------------------------------- close
\* close() without the readyState test
CanCloseAnyState(w, r) == w # 0

\* this.ws && this.ws.readyState === 1
CanClose(w, r) == w # 0 /\ r[w] = 1

\* close(): ws.close() moves the socket to CLOSING and starts the close handshake
Close ==
  /\ IF CanClose(ws, rs)
     THEN /\ rs' = [rs EXCEPT ![ws] = 2]
          /\ closeReq' = [closeReq EXCEPT ![ws] = @ + 1]
     ELSE UNCHANGED <<rs, closeReq>>
  /\ UNCHANGED <<ws, nchan, conn, id, pending, calls, writes, eventHandlers, invoked>>

\* ------------------------------------------------------------ channel events
\* a frame is dropped: it has an id and no entry of the pending set has it
Stray(f) == Truthy(f.id) /\ ~Has(pending, f.id)

\* the process was interrupted: nothing of it runs any more
Killed == pc \in {"killed", "killedInBody"}

\* the body of withClient is running
InBody == pc \in {"body", "awaitBody", "blocked"}

\* the message handler has not returned: its for...of loop is still running
\* after MaxSteps invocations, and nothing else of the program runs meanwhile
Dispatching == pc = "dispatching"

\* the event loop runs nothing any more
Halted == Killed \/ Dispatching

\* the dispatch of frame f outlasts the invocations the model follows
Unfinished(f) == ~Truthy(f.id) /\ f.method # "absent" /\ ~Dispatch(f).done

\* the events of the channel, as steps of the whole program
ChOpen ==
  /\ ~Halted
  /\ \E ch \in 1..nchan : OnOpen(ch)
  /\ UNCHANGED <<dropped, pc, awaited, err, closeInvoked, targets, flags, picked>>

ChError ==
  /\ ~Halted
  /\ \E ch \in 1..nchan : OnError(ch)
  /\ UNCHANGED <<dropped, pc, awaited, err, closeInvoked, targets, flags, picked>>

\* FS: the frames the peer may send; track: whether dropped is recorded.
\* A dispatch that returns with more than MaxHandlers entries is not followed.
ChMessage(FS, track) ==
  /\ ~Halted
  /\ \E ch \in 1..nchan, f \in FS :
       /\ OnMessage(ch, f)
       /\ Unfinished(f) \/ SumLen(eventHandlers', DOMAIN eventHandlers') <= MaxHandlers
       /\ pc' = IF Unfinished(f) THEN "dispatching" ELSE pc
       /\ dropped' = IF track /\ InBody /\ Stray(f)
                     THEN dropped \cup Unsettled ELSE dropped
  /\ UNCHANGED <<awaited, err, closeInvoked, targets, flags, picked>>

ChClose ==
  /\ ~Halted
  /\ \E ch \in 1..nchan : OnClose(ch)
  /\ UNCHANGED <<dropped, pc, awaited, err, closeInvoked, targets, flags, picked>>

ChWriteError ==
  /\ ~Halted
  /\ \E p \in 1..Len(calls) : OnWriteError(p)
  /\ UNCHANGED <<dropped, pc, awaited, err, closeInvoked, targets, flags, picked>>

\* ------------------------------------------------------------ Spec: the client
SendKinds == {"throw", "write", "cbsync", "cblate"}

\* a caller of the client's methods
ApiConnectOnce ==
  /\ pc = "api"
  /\ nchan = 0
  /\ Connect
  /\ UNCHANGED <<dropped, pc, awaited, err, closeInvoked, targets, flags, picked>>

ApiSend(max) ==
  /\ pc = "api"
  /\ Len(calls) < max
  /\ \E how \in SendKinds : Send("m", how)
  /\ UNCHANGED <<dropped, pc, awaited, err, closeInvoked, targets, flags, picked>>

ApiClose ==
  /\ pc = "api"
  /\ Close
  /\ UNCHANGED <<dropped, pc, awaited, err, closeInvoked, targets, flags, picked>>

Next ==
  \/ ApiConnectOnce
  \/ ApiSend(MaxCalls)
  \/ ApiClose
  \/ ChOpen
  \/ ChError
  \/ ChMessage(Frames, FALSE)
  \/ ChClose
  \/ ChWriteError

Spec == Init /\ [][Next]_vars

\* -------------------------------------------- LifeSpec: connect() once more
ApiConnectAgain ==
  /\ pc = "api"
  /\ nchan < MaxChannels
  /\ Connect
  /\ UNCHANGED <<dropped, pc, awaited, err, closeInvoked, targets, flags, picked>>

LifeNext ==
  \/ ApiConnectAgain
  \/ ApiSend(MaxLifeCalls)
  \/ ApiClose
  \/ ChOpen
  \/ ChError
  \/ ChMessage(Frames, FALSE)
  \/ ChClose
  \/ ChWriteError

LifeSpec == Init /\ [][LifeNext]_vars

\* ------------------------------------------- EventSpec: subscriptions, events
\* the handlers a caller registers ("late" is registered by handlers only)
CallerHandlers == {"a", "b", "adder", "looper", "cross"}

ApiOn ==
  /\ pc = "api"
  /\ NumHandlers < MaxHandlers
  /\ \E m \in Methods, h \in CallerHandlers : On(m, h)
  /\ UNCHANGED <<dropped, pc, awaited, err, closeInvoked, targets, flags, picked>>

EventNext ==
  \/ ApiConnectOnce
  \/ ApiOn
  \/ ChOpen
  \/ ChMessage(EventFrames, FALSE)
  \/ ChClose

EventSpec == Init /\ [][EventNext]_vars

\* ----------------------------------- WaitSpec: calls, events, subscriptions
\* a caller subscribes as cmdLogs does: its next subscription
ApiSubscribe ==
  /\ pc = "api"
  /\ NumHandlers < Len(LogSubscriptions)
  /\ LET sub == LogSubscriptions[NumHandlers + 1] IN On(sub.method, sub.handler)
  /\ UNCHANGED <<dropped, pc, awaited, err, closeInvoked, targets, flags, picked>>

\* the frames of WaitSpec: the ids its calls can have and two that none has
WaitFrames == {f \in Frames : f.id <= MaxWaitCalls + 1 \/ f.id = StrayId}

WaitNext ==
  \/ ApiConnectOnce
  \/ ApiSend(MaxWaitCalls)
  \/ ApiSubscribe
  \/ ChOpen
  \/ ChMessage(WaitFrames, FALSE)
  \/ ChClose
  \/ ChWriteError

WaitSpec == Init /\ [][WaitNext]_vars

\* --------------------------------------- LateSpec: calls on a closed client
\* a callback that ws.send scheduled with process.nextTick runs
ChDeferredWriteError ==
  /\ ~Halted
  /\ \E p \in writes : OnWriteError(p)
  /\ UNCHANGED <<dropped, pc, awaited, err, closeInvoked, targets, flags, picked>>

LateNext ==
  \/ ApiConnectOnce
  \/ ApiSend(MaxLateCalls)
  \/ ApiClose
  \/ ChOpen
  \/ ChError
  \/ ChClose
  \/ ChWriteError

\* the tick queue of Node is always drained: a scheduled callback runs
LateSpec == Init /\ [][LateNext]_vars /\ WF_vars(ChDeferredWriteError)

\* ------------------------------------------------------ PickSpec: pickTarget
\* the target lists and flags pickTarget is called with
TargetIds == { << "A" >>, << "B" >> }
TargetTexts == { Undefined, << "a", "b" >>, << "b", "A" >> }
TargetValues == [id : TargetIds, url : TargetTexts, title : TargetTexts]
TargetLists == UNION { [1..n -> TargetValues] : n \in 0..MaxTargets }

\* --target=, --url-contains=, --title-contains= (Undefined: the flag is not given)
FlagTargets == { Undefined, << >>, << "A" >>, << "B" >>, << "C" >> }
FlagParts == { Undefined, << >>, << "a" >>, << "A" >>, << "b", "A" >> }
FlagValues == [target : FlagTargets, urlContains : FlagParts, titleContains : FlagParts]

InitPick ==
  /\ InitClient
  /\ pc = "api"
  /\ awaited = 0
  /\ err = "none"
  /\ closeInvoked = FALSE
  /\ targets \in TargetLists
  /\ flags \in FlagValues
  /\ picked = NotCalled

\* const target = pickTarget(targets, flags)
Pick ==
  /\ picked = NotCalled
  /\ picked' = PickTarget(targets, flags)
  /\ UNCHANGED <<clientVars, invoked, dropped, sessionVars, targets, flags>>

PickNext == Pick

PickSpec == InitPick /\ [][PickNext]_vars

\* ------------------------------------------------- SessionSpec: withClient
InitSession ==
  /\ InitClient
  /\ pc = "start"
  /\ awaited = 0
  /\ err = "none"
  /\ closeInvoked = FALSE
  /\ NoSelection

\* a try block without its finally: a throw leaves withClient at once
OnThrowNoFinally == "raised"

\* where control goes when the try block of withClient throws
OnThrow == "finally"

\* listTargets(...) and pickTarget(...): a target, or an error
WcDiscover ==
  /\ pc = "start"
  /\ \E ok \in BOOLEAN :
       /\ pc' = IF ok THEN "connect" ELSE "raised"
       /\ err' = IF ok THEN "none" ELSE "discovery error"
  /\ UNCHANGED <<clientVars, invoked, awaited, closeInvoked>>
  /\ UNCHANGED <<dropped, targets, flags, picked>>

\* new CDPClient(...); client.connect() up to its await
WcConnect ==
  /\ pc = "connect"
  /\ Connect
  /\ pc' = "connecting"
  /\ UNCHANGED <<awaited, err, closeInvoked>>
  /\ UNCHANGED <<dropped, targets, flags, picked>>

\* await client.connect() resumes
WcConnected ==
  /\ pc = "connecting"
  /\ conn[ws] # "pending"
  /\ IF conn[ws] = "resolved"
     THEN pc' = "setup" /\ err' = err
     ELSE pc' = "raised" /\ err' = "connect error"
  /\ UNCHANGED <<clientVars, invoked, awaited, closeInvoked>>
  /\ UNCHANGED <<dropped, targets, flags, picked>>

\* client.send('Page.enable' | 'Runtime.enable' | 'Log.enable') up to its await
WcSetup ==
  /\ pc = "setup"
  /\ \E how \in SendKinds : Send(SetupCalls[Len(calls) + 1], how)
  /\ awaited' = Len(calls) + 1
  /\ pc' = "awaitSetup"
  /\ UNCHANGED <<err, closeInvoked>>
  /\ UNCHANGED <<dropped, targets, flags, picked>>

\* an await of a call resumes: with its result, or by throwing its error
WcResume ==
  /\ pc \in {"awaitSetup", "awaitBody"}
  /\ calls[awaited].state # "pending"
  /\ IF calls[awaited].state = "resolved"
     THEN /\ pc' = IF pc = "awaitSetup" /\ Len(calls) < Len(SetupCalls)
                   THEN "setup" ELSE "body"
          /\ awaited' = 0
          /\ err' = err
     ELSE /\ pc' = OnThrow
          /\ awaited' = awaited
          /\ err' = calls[awaited].value
  /\ UNCHANGED <<clientVars, invoked, closeInvoked>>
  /\ UNCHANGED <<dropped, targets, flags, picked>>

\* the body (fn) awaits a call of its own
BodySend ==
  /\ pc = "body"
  /\ Len(calls) < SessionCalls
  /\ \E how \in SendKinds : Send("Runtime.evaluate", how)
  /\ awaited' = Len(calls) + 1
  /\ pc' = "awaitBody"
  /\ UNCHANGED <<err, closeInvoked>>
  /\ UNCHANGED <<dropped, targets, flags, picked>>

\* the body subscribes to an event (cmdLogs: its next subscription)
BodyOn ==
  /\ pc = "body"
  /\ NumHandlers < Len(LogSubscriptions)
  /\ LET sub == LogSubscriptions[NumHandlers + 1] IN On(sub.method, sub.handler)
  /\ UNCHANGED sessionVars
  /\ UNCHANGED <<dropped, targets, flags, picked>>

\* the body completes
BodyReturn ==
  /\ pc = "body"
  /\ pc' = "finally"
  /\ UNCHANGED <<clientVars, invoked, awaited, err, closeInvoked>>
  /\ UNCHANGED <<dropped, targets, flags, picked>>

\* the body throws an error of its own
BodyThrow ==
  /\ pc = "body"
  /\ pc' = OnThrow
  /\ err' = "body error"
  /\ UNCHANGED <<clientVars, invoked, awaited, closeInvoked>>
  /\ UNCHANGED <<dropped, targets, flags, picked>>

\* the body awaits a promise that never settles (cmdLogs)
BodyBlock ==
  /\ pc = "body"
  /\ pc' = "blocked"
  /\ UNCHANGED <<clientVars, invoked, awaited, err, closeInvoked>>
  /\ UNCHANGED <<dropped, targets, flags, picked>>

\* finally { client.close(); }, then withClient returns or re-raises
WcFinally ==
  /\ pc = "finally"
  /\ Close
  /\ closeInvoked' = TRUE
  /\ pc' = IF err = "none" THEN "returned" ELSE "raised"
  /\ UNCHANGED <<awaited, err>>
  /\ UNCHANGED <<dropped, targets, flags, picked>>

Running == pc \in {"start", "connect", "connecting", "setup", "awaitSetup",
                   "body", "awaitBody", "blocked", "finally"}
\* the process is interrupted (SIGINT): the program installs no signal handler,
\* so the process ends where it is and nothing more of it runs
Interrupt ==
  /\ Running
  /\ pc' = IF InBody THEN "killedInBody" ELSE "killed"
  /\ UNCHANGED <<clientVars, invoked, awaited, err, closeInvoked>>
  /\ UNCHANGED <<dropped, targets, flags, picked>>

SessionNext ==
  \/ WcDiscover
  \/ WcConnect
  \/ WcConnected
  \/ WcSetup
  \/ WcResume
  \/ BodySend
  \/ BodyOn
  \/ BodyReturn
  \/ BodyThrow
  \/ BodyBlock
  \/ WcFinally
  \/ Interrupt
  \/ ChOpen
  \/ ChError
  \/ ChMessage(SessionFrames, TRUE)
  \/ ChClose
  \/ ChWriteError

SessionSpec == InitSession /\ [][SessionNext]_vars

\* ===================================================================== claims
CallIds == 1..Len(calls)

\* C1: a call settled by an inbound frame is settled by the frame that carries
\* the id allocated to that call, with that frame's result or error, whatever
\* the order in which the responses of the outstanding calls arrive.
C1_SettledByOwnFrame ==
  \A p \in CallIds :
    calls[p].cause = "frame" =>
      /\ calls[p].frame.id = calls[p].id
      /\ calls[p].value \in
           { calls[p].frame.result, "{}", calls[p].frame.error.message, "json" }
      /\ \A q \in CallIds \ {p} : calls[q].id # calls[p].frame.id

\* the responses of calls 2 and 3 arrived, with different payloads, while
\* call 1, sent first, is still outstanding
C1_Witness ==
  /\ Len(calls) >= 3
  /\ calls[1].state = "pending"
  /\ calls[2].cause = "frame"
  /\ calls[3].cause = "frame"
  /\ calls[2].value # calls[3].value

\* C2: the close event fails every outstanding call with the connection-closed
\* error and leaves the pending set empty.
C2_CloseFailsAll ==
  [][ \A ch \in 1..nchan :
        OnClose(ch) =>
          /\ pending' = EmptyMap
          /\ \A p \in Unsettled :
               /\ calls'[p].state = "rejected"
               /\ calls'[p].value = "WebSocket closed" ]_vars

\* the channel closed with two calls outstanding
C2_Witness ==
  /\ nchan = 1
  /\ rs[1] = 3
  /\ pending = EmptyMap
  /\ Cardinality({p \in CallIds : calls[p].cause = "close"}) >= 2

\* C3: a call whose outbound write raised inside send() has failed and has no
\* entry in the pending set.
C3_SyncFailureRemoved ==
  \A p \in CallIds :
    calls[p].cause = "throw" =>
      /\ calls[p].state = "rejected"
      /\ ~Has(pending, calls[p].id)

\* C4: the pending set holds exactly the ids of the calls sent and not yet
\* settled, and each of its entries is the call that was given that id.
C4_PendingIsUnsettled ==
  /\ DOMAIN pending = {calls[p].id : p \in Unsettled}
  /\ \A k \in DOMAIN pending : calls[pending[k]].id = k

\* C6: a call settled by a frame with an error field is rejected (with
\* error.message when that is not empty) also when the frame has a result;
\* without an error field it is resolved with the result field ({} when the
\* frame has none).
C6_ErrorTakesPrecedence ==
  \A p \in CallIds :
    calls[p].cause = "frame" =>
      LET f == calls[p].frame
      IN /\ f.error.present =>
              /\ calls[p].state = "rejected"
              /\ f.error.message # "" => calls[p].value = f.error.message
         /\ ~f.error.present =>
              /\ calls[p].state = "resolved"
              /\ calls[p].value = (IF f.result = "absent" THEN "{}" ELSE f.result)

\* a call rejected with "boom" by a frame that also had a result field
C6_Witness ==
  \E p \in CallIds :
    /\ calls[p].cause = "frame"
    /\ calls[p].frame.error.message = "boom"
    /\ calls[p].frame.result = "r1"
    /\ calls[p].state = "rejected"
    /\ calls[p].value = "boom"

\* C9: once the current channel has closed, the client keeps that channel: no
\* later connect() gives it another one.
C9_ClosedIsTerminal ==
  [][ (ws # 0 /\ rs[ws] = 3) => ws' = ws ]_vars

\* C10: close of a channel is requested at most once, and only on a channel
\* that was open when close() was invoked.
C10_CloseOnce ==
  \A ch \in 1..nchan :
    /\ closeReq[ch] <= 1
    /\ closeReq[ch] = 1 => (conn[ch] = "resolved" /\ rs[ch] \in {2, 3})

\* close() was requested on the open channel, which then closed, and the
\* client was connected again
C10_Witness ==
  /\ nchan = 2
  /\ closeReq[1] = 1
  /\ rs[1] = 3
  /\ closeReq[2] = 1

\* C5: a frame whose id matches no entry of the pending set changes nothing
\* of the client (no entry, no call) and invokes no handler: a step that
\* changes the client or invokes a handler is not the handling of such a
\* frame.  And a frame whose id matches an outstanding call settles that call,
\* whether or not frames were dropped before it.
C5_StrayDropped ==
  [][ /\ ( /\ <<pending, calls, invoked>>' # <<pending, calls, <<>> >>
           /\ UNCHANGED <<ws, nchan, rs, conn, closeReq, id, writes, eventHandlers>> )
         => \A ch \in 1..nchan, f \in Frames : Stray(f) => ~OnMessage(ch, f)
      /\ \A ch \in 1..nchan, f \in ResponseFrames :
           (Has(pending, f.id) /\ pending[f.id] \in Unsettled /\ OnMessage(ch, f)) =>
             /\ calls'[pending[f.id]].state # "pending"
             /\ calls'[pending[f.id]].frame = f ]_vars

\* a frame was dropped while a call of the body was outstanding and a handler
\* was registered for the method the frame may carry; the call was resolved by
\* its response afterwards
C5_Witness ==
  \E p \in dropped :
    /\ p > Len(SetupCalls)
    /\ Has(eventHandlers, "Runtime.consoleAPICalled")
    /\ calls[p].cause = "frame"
    /\ calls[p].state = "resolved"
    /\ calls[p].value = "r1"

\* C7: when withClient returns or re-raises after the connection was opened,
\* its finally has invoked close(), and what it re-raises is the error that
\* was thrown inside the try block.
C7_CloseOnEveryExit ==
  (pc \in {"returned", "raised"} /\ ws # 0 /\ conn[ws] = "resolved") =>
    /\ closeInvoked
    /\ pc = "returned" => err = "none"
    /\ pc = "raised" =>
         /\ err # "none"
         /\ awaited # 0 => err = calls[awaited].value
         /\ awaited = 0 => err = "body error"

\* the connection closed while a call of the body was awaited
C7_Witness ==
  /\ pc = "raised"
  /\ closeInvoked
  /\ awaited > Len(SetupCalls)
  /\ err = "WebSocket closed"

\* C8: when the process is interrupted while the body runs, close() has been
\* invoked on the client.
C8_CloseOnInterrupt ==
  pc = "killedInBody" => closeInvoked

C12_IdsIncrease ==
  /\ id = Len(calls)
  /\ \A p \in CallIds : calls[p].id = p
  /\ \A p, q \in CallIds : p < q => calls[p].id < calls[q].id
  /\ \A k \in DOMAIN pending : pending[k] \in CallIds /\ calls[pending[k]].id = k
  /\ \A j, k \in DOMAIN pending : pending[j] = pending[k] => j = k

\* three calls: the first failed, the second was answered, the third is pending
C12_Witness ==
  /\ Len(calls) = 3
  /\ calls[1].state = "rejected"
  /\ calls[2].state = "resolved"
  /\ calls[3].state = "pending"
  /\ calls[3].id = 3
  /\ DOMAIN pending = {3}

\* s is prefix, part, suffix for some prefix and suffix, character for character
Contains(s, part) ==
  \E i \in 0..Len(s) :
    /\ i + Len(part) <= Len(s)
    /\ \A k \in 1..Len(part) : s[i + k] = part[k]

\* the text of a field of a target (a missing field has no characters)
TextOf(v) == IF v = Undefined THEN << >> ELSE v

\* target t satisfies every filter that the flags set
Satisfies(t) ==
  /\ flags.urlContains # Undefined => Contains(TextOf(t.url), flags.urlContains)
  /\ flags.titleContains # Undefined => Contains(TextOf(t.title), flags.titleContains)

Lowest(S) == CHOOSE i \in S : \A j \in S : i <= j

\* C13: called with a non-empty list and no exact id, pickTarget returns the
\* target of lowest index whose url contains urlContains (if given) and whose
\* title contains titleContains (if given), character for character; it returns
\* the first target when neither is given; it throws the no-match error exactly
\* when no target satisfies the filters given.
C13_FirstMatch ==
  (picked.kind # "none" /\ Len(targets) > 0 /\ ~TruthyString(flags.target)) =>
    LET matching == {i \in 1..Len(targets) : Satisfies(targets[i])}
    IN /\ matching # {} => picked = Returned(targets[Lowest(matching)])
       /\ matching = {} => picked = Thrown("No targets matched the provided filters")
       /\ (flags.urlContains = Undefined /\ flags.titleContains = Undefined) =>
            picked = Returned(targets[1])

\* both filters are given, the first target satisfies only the url filter (its
\* title has the other case) and the second target, which satisfies both, is
\* the one returned
C13_Witness ==
  /\ picked.kind = "return"
  /\ flags.target = Undefined
  /\ flags.urlContains = << "A" >> /\ flags.titleContains = << "A" >>
  /\ Len(targets) = 2
  /\ targets[1].url = << "b", "A" >> /\ targets[1].title = << "a", "b" >>
  /\ targets[2].url = << "b", "A" >> /\ targets[2].title = << "b", "A" >>
  /\ targets[1].id # targets[2].id
  /\ picked.target = targets[2]

\* C14: called with a non-empty list and an exact id, pickTarget returns the
\* first target that has this id, whatever the filters are, and throws the
\* target-not-found error when no target of the list has the id.
C14_ExactId ==
  (picked.kind # "none" /\ Len(targets) > 0 /\ TruthyString(flags.target)) =>
    LET having == {i \in 1..Len(targets) : targets[i].id = flags.target}
    IN /\ having # {} => picked = Returned(targets[Lowest(having)])
       /\ having = {} => picked = Thrown("Target id not found")

\* the target of the exact id is returned although it satisfies neither of the
\* two filters given and the other target satisfies both
C14_Witness ==
  /\ picked.kind = "return"
  /\ flags.target = << "B" >>
  /\ flags.urlContains = << "a" >> /\ flags.titleContains = << "a" >>
  /\ Len(targets) = 2
  /\ targets[1].id = << "A" >> /\ Satisfies(targets[1])
  /\ targets[2].id = << "B" >>
  /\ ~Contains(TextOf(targets[2].url), flags.urlContains)
  /\ ~Contains(TextOf(targets[2].title), flags.titleContains)
  /\ picked.target = targets[2]

\* C15: called with an empty list, pickTarget throws the no-targets error,
\* whatever the flags are.
C15_EmptyList ==
  (picked.kind # "none" /\ Len(targets) = 0) => picked = Thrown("No page targets found")

\* the list is empty and the flags give an exact id and a filter
C15_Witness ==
  /\ picked = Thrown("No page targets found")
  /\ targets = << >>
  /\ TruthyString(flags.target)
  /\ TruthyString(flags.urlContains)

\* the state shows that withClient has invoked the body
BodyWasInvoked ==
  \/ InBody
  \/ pc \in {"returned", "killedInBody"}
  \/ err = "body error"
  \/ NumHandlers > 0
  \/ \E p \in CallIds : calls[p].method = "Runtime.evaluate"

\* C16: the first three calls of withClient are Page.enable, Runtime.enable and
\* Log.enable in this order, each sent only when the one before it has resolved;
\* the body is invoked only when all three have resolved; when one of them
\* fails no further call is sent, the body is never invoked, and what
\* withClient raises is the error of that call.
C16_SetupInOrder ==
  /\ Len(calls) >= 1 => calls[1].method = "Page.enable"
  /\ Len(calls) >= 2 => calls[2].method = "Runtime.enable"
  /\ Len(calls) >= 3 => calls[3].method = "Log.enable"
  /\ \A p \in CallIds : p > 1 => calls[p - 1].state = "resolved"
  /\ BodyWasInvoked =>
       (Len(calls) >= 3 /\ \A p \in 1..3 : calls[p].state = "resolved")
  /\ \A p \in CallIds :
       (p <= 3 /\ calls[p].state = "rejected") =>
         /\ Len(calls) = p
         /\ ~BodyWasInvoked
         /\ pc \in {"awaitSetup", "finally", "raised", "killed"}
         /\ pc \in {"finally", "raised"} => err = calls[p].value

\* Runtime.enable was answered with an error: Log.enable was not sent and
\* withClient raised that error
C16_Witness ==
  /\ pc = "raised"
  /\ Len(calls) = 2
  /\ calls[1].state = "resolved"
  /\ calls[2].state = "rejected" /\ calls[2].cause = "frame"
  /\ err = "boom"

\* C17: a step that settles an unsettled call, or takes its entry out of the
\* pending set, is the arrival of a frame with the id of the call, the report
\* of a failed write of the call's own frame, or the close event; a call that
\* is settled within the send() that made it is settled by the failure of its
\* own write.  Every other step (another call, a response to another call, a
\* stray frame, an event frame, a subscription) leaves the call
\* unsettled and its entry in the pending set.
C17_SettledOnlyBy ==
  [][ /\ \A p \in CallIds :
           ( /\ calls[p].state = "pending"
             /\ calls'[p].state # "pending" \/ ~Has(pending', calls[p].id) ) =>
             \/ \E ch \in 1..nchan, f \in Frames :
                  f.id = calls[p].id /\ OnMessage(ch, f) /\ calls'[p].frame = f
             \/ OnWriteError(p) /\ calls'[p].cause = "write"
             \/ (\E ch \in 1..nchan : OnClose(ch)) /\ calls'[p].cause = "close"
      /\ \A p \in 1..Len(calls') :
           (p \notin CallIds /\ calls'[p].state # "pending") =>
             /\ calls'[p].cause \in {"write", "throw"}
             /\ \E how \in {"throw", "cbsync"} : Send(calls'[p].method, how) ]_vars

\* the first call is still unsettled and in the pending set after a second
\* call was made and answered, both subscriptions were made and an event
\* frame was fanned out, on a connection that is still open
C17_Witness ==
  /\ Len(calls) = 2
  /\ calls[1].state = "pending" /\ Has(pending, 1)
  /\ calls[2].state = "resolved"
  /\ NumHandlers = 2
  /\ Len(invoked) = 1
  /\ ws # 0 /\ rs[ws] = 1

\* C18: the promise connect() awaits is settled as soon as the channel has
\* left CONNECTING; it is resolved only by the open event and rejected only by
\* an error of the channel that is still connecting; once it is rejected the
\* channel is never open, withClient sends no call and never invokes the body,
\* and what withClient raises is the failure of connect().
C18_ConnectSettles ==
  [][ \A ch \in 1..nchan' :
        /\ rs'[ch] # 0 => conn'[ch] # "pending"
        /\ (conn'[ch] = "resolved" /\ (ch > nchan \/ conn[ch] # "resolved")) =>
             (ch <= nchan /\ conn[ch] = "pending" /\ rs[ch] = 0 /\ rs'[ch] = 1)
        /\ (conn'[ch] = "rejected" /\ (ch > nchan \/ conn[ch] # "rejected")) =>
             (ch <= nchan /\ conn[ch] = "pending" /\ rs[ch] = 0 /\ rs'[ch] = 2)
        /\ conn'[ch] = "rejected" =>
             /\ rs'[ch] \in {2, 3}
             /\ calls' = << >>
             /\ ~BodyWasInvoked'
             /\ pc' \in {"connecting", "raised", "killed"}
             /\ pc' = "raised" => err' = "connect error" ]_vars

\* the channel reported an error and closed without ever opening: connect()
\* failed and withClient raised its failure with no call sent
C18_Witness ==
  /\ nchan = 1
  /\ conn[1] = "rejected"
  /\ rs[1] = 3
  /\ pc = "raised" /\ err = "connect error"
  /\ calls = << >>

\* C19: a send() on a client whose socket is CLOSING or CLOSED (close() was
\* invoked, or the close event has come) makes a call that is rejected and out
\* of the pending set when send() returns, or whose callback is scheduled; a
\* call with a scheduled callback is in the end rejected and out of the pending
\* set; when the socket is CLOSED and no callback is scheduled the pending set
\* is empty.
C19_ClosedSendFails ==
  /\ [][ \A how \in SendKinds :
            (ws # 0 /\ rs[ws] \in {2, 3} /\ Send("m", how)) =>
              LET p == Len(calls')
              IN \/ calls'[p].state = "rejected" /\ ~Has(pending', calls'[p].id)
                 \/ p \in writes' ]_vars
  /\ \A p \in 1..MaxLateCalls :
        (p \in writes) ~>
          ( /\ p \in CallIds /\ p \notin writes
            /\ calls[p].state = "rejected" /\ ~Has(pending, calls[p].id) )
  /\ []((ws # 0 /\ rs[ws] = 3 /\ writes = {}) => pending = EmptyMap)

\* the socket is CLOSED after a close(); one call was rejected by the close
\* event and one by the callback of its write, and the pending set is empty
C19_Witness ==
  /\ ws # 0 /\ rs[ws] = 3 /\ closeReq[ws] = 1
  /\ Len(calls) = 2
  /\ calls[1].state = "rejected" /\ calls[1].cause = "close"
  /\ calls[2].state = "rejected" /\ calls[2].cause = "write"
  /\ writes = {}
  /\ pending = EmptyMap

\* the handlers of a list, as a set
Range(list) == {list[i] : i \in 1..Len(list)}

\* C20: the dispatch of an event frame walks the list as it is while it runs:
\* when the dispatch returns, the handlers that were appended to the list of
\* the frame's method during this dispatch have been invoked for this frame,
\* after those that were there at the start; and when a handler of the list
\* registers itself again on every invocation, the dispatch does not return:
\* after any number of invocations the list still has an entry to visit.
C20_LiveIteration ==
  [][ \A ch \in 1..nchan, f \in EventFrames :
        (f.method # "absent" /\ OnMessage(ch, f)) =>
          LET old == ListOf(eventHandlers, f.method)
              new == ListOf(eventHandlers', f.method)
          IN /\ ~Dispatching' =>
                  \A i \in (Len(old) + 1)..Len(new) :
                    i <= Len(invoked') /\ invoked'[i].h = new[i]
             /\ "looper" \in Range(old) =>
                  (Dispatching' /\ Len(new) > Len(invoked')) ]_vars

\* in one dispatch "adder" registered "late" and "looper" registered itself:
\* "late" was invoked for the same frame, and after MaxSteps invocations the
\* list is longer than the sequence of invocations
C20_Witness ==
  /\ Dispatching
  /\ Len(invoked) = MaxSteps
  /\ invoked[1].h = "adder" /\ invoked[2].h = "looper" /\ invoked[3].h = "late"
  /\ \E m \in Methods :
        /\ Len(eventHandlers[m]) > Len(invoked)
        /\ \A i \in 1..Len(invoked) : eventHandlers[m][i] = invoked[i].h
====
